---- MODULE Spec2Model ----
(***************************************************************************)
(* Model of the stack-based state machine of src/engine/state.rs:          *)
(* StateMachine { running, state_stack } and the State trait callbacks.    *)
(* Every controller call is one action; the callbacks it makes on the      *)
(* states are recorded, in order, in `trace`, each with the controller's   *)
(* running flag and stack depth at the moment of the call.                 *)
(***************************************************************************)
EXTENDS Integers, Sequences, FiniteSets, TLC

VARIABLES running,      \* StateMachine.running
          state_stack,  \* StateMachine.state_stack, bottom first, top last
          panicked,     \* a call aborted in Option::unwrap on None
          trace,        \* callbacks made by the last controller call
          lastOp,       \* the last controller call and the request it applied
          prev,         \* running / state_stack / everRan before the last call
          everRan,      \* start() has succeeded at least once
          nextId,       \* identity of the next State object to be boxed
          life,         \* per State object: summary of the callbacks it has received
          restarted,    \* start() has been called on a machine that stop() had shut down
          streak        \* the current run of consecutive update() calls

vars == <<running, state_stack, panicked, trace, lastOp, prev, everRan, nextId,
          life, restarted, streak>>

\* Number of distinct State objects created in one behaviour.
MaxStates == 4

\* A State either keeps the trait's default update/fixed_update or overrides them.
Kinds == {"default", "custom"}

NoState == [id |-> 0, kind |-> "none"]

StateObj(i, k) == [id |-> i, kind |-> k]

\* enum Trans
Trans(t, s) == [t |-> t, s |-> s]
TransNone == Trans("None", NoState)
TransPop == Trans("Pop", NoState)
TransQuit == Trans("Quit", NoState)
TransPush(s) == Trans("Push", s)
TransSwitch(s) == Trans("Switch", s)

Lifecycle == {"on_start", "on_stop", "on_pause", "on_resume"}

\* The machine as the methods see it.
Machine(r, stk, tr, p) == [running |-> r, state_stack |-> stk, trace |-> tr, panicked |-> p]

\* One callback invocation on the state at index i of the stack.
Invoke(m, cb, i) ==
    [m EXCEPT !.trace = Append(@, [cb |-> cb,
                                   st |-> m.state_stack[i].id,
                                   run |-> m.running,
                                   depth |-> Len(m.state_stack)])]

\* Vec::pop / Vec::push
VecPop(m) == [m EXCEPT !.state_stack = SubSeq(@, 1, Len(@) - 1)]
VecPush(m, s) == [m EXCEPT !.state_stack = Append(@, s)]

\* StateMachine::new
new(s) == Machine(FALSE, <<s>>, <<>>, FALSE)

\* StateMachine::current: index of the active state, 0 for Option::None
current(m) == Len(m.state_stack)

\* current().unwrap().cb(): aborts when the stack is empty
UnwrapInvoke(m, cb) ==
    IF current(m) = 0 THEN [m EXCEPT !.panicked = TRUE]
    ELSE Invoke(m, cb, current(m))

\* for state in self.state_stack.iter_mut() { state.on_stop(); }, from index i on
RECURSIVE IterOnStop(_, _)
IterOnStop(m, i) ==
    IF i > Len(m.state_stack) THEN m
    ELSE IterOnStop(Invoke(m, "on_stop", i), i + 1)

\* start() without the running guard
start_unguarded(m) ==
    LET m1 == UnwrapInvoke(m, "on_start")
    IN IF m1.panicked THEN m1 ELSE [m1 EXCEPT !.running = TRUE]

\* StateMachine::start
start(m) ==
    IF ~m.running
    THEN LET m1 == UnwrapInvoke(m, "on_start")
         IN IF m1.panicked THEN m1 ELSE [m1 EXCEPT !.running = TRUE]
    ELSE m

\* stop() that also drains the stack it has unwound
stop_draining(m) ==
    IF m.running
    THEN [IterOnStop(m, 1) EXCEPT !.running = FALSE, !.state_stack = <<>>]
    ELSE m

\* stop() without the running guard
stop_unguarded(m) ==
    [IterOnStop(m, 1) EXCEPT !.running = FALSE]

\* stop() that also removes the active state
stop_dropping_top(m) ==
    IF m.running
    THEN VecPop([IterOnStop(m, 1) EXCEPT !.running = FALSE])
    ELSE m

\* StateMachine::stop
stop(m) ==
    IF m.running
    THEN [IterOnStop(m, 1) EXCEPT !.running = FALSE]
    ELSE m

\* switch() that stops the outgoing state but forgets to remove it
switch_keeping(m, s) ==
    IF m.running
    THEN LET m1 == IF m.state_stack # <<>>
                   THEN UnwrapInvoke(m, "on_stop")
                   ELSE m
         IN UnwrapInvoke(VecPush(m1, s), "on_start")
    ELSE m

\* switch() that pauses the outgoing state instead of stopping it
switch_pausing(m, s) ==
    IF m.running
    THEN LET m1 == IF m.state_stack # <<>>
                   THEN VecPop(UnwrapInvoke(m, "on_pause"))
                   ELSE m
         IN UnwrapInvoke(VecPush(m1, s), "on_start")
    ELSE m

\* StateMachine::switch
switch(m, s) ==
    IF m.running
    THEN LET m1 == IF m.state_stack # <<>>
                   THEN VecPop(UnwrapInvoke(m, "on_stop"))
                   ELSE m
         IN UnwrapInvoke(VecPush(m1, s), "on_start")
    ELSE m

\* push() that starts the new state before pausing the old one
push_start_first(m, s) ==
    IF m.running
    THEN LET m1 == UnwrapInvoke(VecPush(m, s), "on_start")
         IN IF current(m) # 0
            THEN Invoke(m1, "on_pause", current(m))
            ELSE m1
    ELSE m

\* push() without the running guard
push_unguarded(m, s) ==
    LET m1 == IF current(m) # 0
              THEN Invoke(m, "on_pause", current(m))
              ELSE m
    IN UnwrapInvoke(VecPush(m1, s), "on_start")

\* push() that does not pause the state it covers
push_no_pause(m, s) ==
    IF m.running
    THEN UnwrapInvoke(VecPush(m, s), "on_start")
    ELSE m

\* StateMachine::push
push(m, s) ==
    IF m.running
    THEN LET m1 == IF current(m) # 0
                   THEN Invoke(m, "on_pause", current(m))
                   ELSE m
         IN UnwrapInvoke(VecPush(m1, s), "on_start")
    ELSE m

\* pop() that resumes the next state before removing the outgoing one
pop_resume_first(m) ==
    IF m.running
    THEN LET m1 == IF current(m) > 1
                   THEN Invoke(m, "on_resume", current(m) - 1)
                   ELSE m
         IN IF m1.state_stack # <<>>
            THEN VecPop(UnwrapInvoke(m1, "on_stop"))
            ELSE m1
    ELSE m

\* pop() that shuts the machine down when it removes the last state
pop_autostop(m) ==
    IF m.running
    THEN LET m1 == IF m.state_stack # <<>>
                   THEN VecPop(UnwrapInvoke(m, "on_stop"))
                   ELSE m
         IN IF current(m1) # 0
            THEN Invoke(m1, "on_resume", current(m1))
            ELSE [m1 EXCEPT !.running = FALSE]
    ELSE m

\* pop() without the is_empty check before current().unwrap()
pop_unchecked(m) ==
    IF m.running
    THEN LET m1 == VecPop(UnwrapInvoke(m, "on_stop"))
         IN IF current(m1) # 0
            THEN Invoke(m1, "on_resume", current(m1))
            ELSE m1
    ELSE m

\* StateMachine::pop
pop(m) ==
    IF m.running
    THEN LET m1 == IF m.state_stack # <<>>
                   THEN VecPop(UnwrapInvoke(m, "on_stop"))
                   ELSE m
         IN IF current(m1) # 0
            THEN Invoke(m1, "on_resume", current(m1))
            ELSE m1
    ELSE m

\* transition() that treats Trans::Quit as a pop of the active state
transition_quit_pops(m, request) ==
    IF m.running
    THEN CASE request.t = "None" -> m
           [] request.t = "Pop" -> pop(m)
           [] request.t = "Push" -> push(m, request.s)
           [] request.t = "Switch" -> switch(m, request.s)
           [] request.t = "Quit" -> pop(m)
    ELSE m

\* StateMachine::transition
transition(m, request) ==
    IF m.running
    THEN CASE request.t = "None" -> m
           [] request.t = "Pop" -> pop(m)
           [] request.t = "Push" -> push(m, request.s)
           [] request.t = "Switch" -> switch(m, request.s)
           [] request.t = "Quit" -> stop(m)
    ELSE m

\* State::fixed_update: the trait's default returns Trans::None
State_fixed_update(s, ret) == IF s.kind = "default" THEN TransNone ELSE ret

\* State::update whose default asks for no change, as fixed_update's does
State_update_none(s, ret) == IF s.kind = "default" THEN TransNone ELSE ret

\* State::update: the trait's default returns Trans::Pop
State_update(s, ret) == IF s.kind = "default" THEN TransPop ELSE ret

\* The request captured by a tick: Trans::None unless a state is active.
Captured(m, ret) ==
    IF m.running /\ current(m) # 0 THEN ret ELSE TransNone

\* handle_events() that hands the events to every stacked state
RECURSIVE IterHandleEvents(_, _)
IterHandleEvents(m, i) ==
    IF i > Len(m.state_stack) THEN m
    ELSE IterHandleEvents(Invoke(m, "handle_events", i), i + 1)

handle_events_broadcast(m) ==
    IF m.running THEN IterHandleEvents(m, 1) ELSE m

\* handle_events() that applies a transition as the update methods do
handle_events_transitioning(m) ==
    IF m.running
    THEN IF current(m) # 0
         THEN transition(Invoke(m, "handle_events", current(m)), TransPop)
         ELSE m
    ELSE m

\* StateMachine::handle_events
handle_events(m) ==
    IF m.running
    THEN IF current(m) # 0 THEN Invoke(m, "handle_events", current(m)) ELSE m
    ELSE m

\* StateMachine::fixed_update; ret is what the active state's method returns
fixed_update(m, ret) ==
    IF m.running
    THEN LET m1 == IF current(m) # 0
                   THEN Invoke(m, "fixed_update", current(m))
                   ELSE m
         IN transition(m1, Captured(m, ret))
    ELSE m

\* update() that also ticks the state a Push or Switch has just installed
update_chaining(m, ret) ==
    IF m.running
    THEN LET m1 == IF current(m) # 0
                   THEN Invoke(m, "update", current(m))
                   ELSE m
             m2 == transition(m1, Captured(m, ret))
         IN IF Captured(m, ret).s # NoState
            THEN Invoke(m2, "update", current(m2))
            ELSE m2
    ELSE m

\* StateMachine::update; ret is what the active state's method returns
update(m, ret) ==
    IF m.running
    THEN LET m1 == IF current(m) # 0
                   THEN Invoke(m, "update", current(m))
                   ELSE m
         IN transition(m1, Captured(m, ret))
    ELSE m

------------------------------------------------------------------------------
\* What a State object has seen so far: its last lifecycle callback, whether
\* on_stop has reached it, whether any callback reached it after on_stop, and
\* whether its lifecycle callbacks so far are well nested.
NoLife == [last |-> "none", stopped |-> FALSE, again |-> FALSE, nested |-> TRUE]

\* on_start first, then on_pause / on_resume in alternation, then on_stop last.
Allowed(last, cb) ==
    CASE last = "none" -> cb = "on_start"
      [] last \in {"on_start", "on_resume"} -> cb \in {"on_pause", "on_stop"}
      [] last = "on_pause" -> cb \in {"on_resume", "on_stop"}
      [] OTHER -> FALSE

\* The State object's summary after it receives the callback cb.
Receive(l, cb) ==
    IF cb \in Lifecycle
    THEN [last |-> cb,
          stopped |-> l.stopped \/ cb = "on_stop",
          again |-> l.again \/ l.stopped,
          nested |-> l.nested /\ Allowed(l.last, cb)]
    ELSE [l EXCEPT !.again = l.again \/ l.stopped]

\* The summaries after the callbacks tr[i..] have been delivered in order.
RECURSIVE Deliver(_, _, _)
Deliver(lf, tr, i) ==
    IF i > Len(tr) THEN lf
    ELSE Deliver([lf EXCEPT ![tr[i].st] = Receive(@, tr[i].cb)], tr, i + 1)

\* The identities of the states that tr[i..] stopped, in the order of the calls.
RECURSIVE Stopped(_, _)
Stopped(tr, i) ==
    IF i > Len(tr) THEN <<>>
    ELSE (IF tr[i].cb = "on_stop" THEN <<tr[i].st>> ELSE <<>>) \o Stopped(tr, i + 1)

NoStreak == [base |-> <<>>, n |-> 0, stops |-> <<>>]

\* The run of consecutive update() calls after one more call with outcome m:
\* base is the stack the run began with on a running machine, n the number of
\* calls counted up to the depth of base, stops the states stopped so far.
NextStreak(m) ==
    LET b == IF streak.n = 0
             THEN [base |-> IF running THEN state_stack ELSE <<>>, n |-> 0, stops |-> <<>>]
             ELSE streak
    IN [base |-> b.base,
        n |-> IF b.n < Len(b.base) THEN b.n + 1 ELSE b.n,
        stops |-> b.stops \o Stopped(m.trace, 1)]

\* The machine before a call: the trace starts empty for every call.
Self == Machine(running, state_stack, <<>>, panicked)

\* State objects a caller or a state's update can box next.
NewStates == IF nextId <= MaxStates THEN {StateObj(nextId, k) : k \in Kinds} ELSE {}

\* Values an overriding update / fixed_update can return.
Returns == {TransNone, TransPop, TransQuit}
             \cup {TransPush(s) : s \in NewStates}
             \cup {TransSwitch(s) : s \in NewStates}

\* Commit the outcome m of the call `op`, which applied request `req`.
Commit(m, op, req) ==
    /\ running' = m.running
    /\ state_stack' = m.state_stack
    /\ panicked' = m.panicked
    /\ trace' = m.trace
    /\ lastOp' = [op |-> op, req |-> req.t, s |-> req.s]
    /\ prev' = [running |-> running, state_stack |-> state_stack, everRan |-> everRan]
    /\ everRan' = (everRan \/ m.running)
    /\ nextId' = IF req.s # NoState THEN nextId + 1 ELSE nextId
    /\ life' = Deliver(life, m.trace, 1)
    /\ restarted' = (restarted \/ (op = "start" /\ everRan /\ ~running))
    /\ streak' = IF op = "update" THEN NextStreak(m) ELSE NoStreak

Init ==
    \E k \in Kinds :
        LET m == new(StateObj(1, k))
        IN /\ running = m.running
           /\ state_stack = m.state_stack
           /\ panicked = m.panicked
           /\ trace = m.trace
           /\ lastOp = [op |-> "new", req |-> "None", s |-> NoState]
           /\ prev = [running |-> FALSE, state_stack |-> m.state_stack, everRan |-> FALSE]
           /\ everRan = FALSE
           /\ nextId = 2
           /\ life = [i \in 1..MaxStates |-> NoLife]
           /\ restarted = FALSE
           /\ streak = NoStreak

CallStart ==
    /\ ~panicked
    /\ Commit(start(Self), "start", TransNone)

CallStop ==
    /\ ~panicked
    /\ Commit(stop(Self), "stop", TransNone)

CallHandleEvents ==
    /\ ~panicked
    /\ Commit(handle_events(Self), "handle_events", TransNone)

CallFixedUpdate ==
    /\ ~panicked
    /\ \E ret \in Returns :
         LET r == IF current(Self) # 0
                  THEN State_fixed_update(state_stack[current(Self)], ret)
                  ELSE TransNone
             req == Captured(Self, r)
         IN /\ req = ret
            /\ Commit(fixed_update(Self, req), "fixed_update", req)

CallUpdate ==
    /\ ~panicked
    /\ \E ret \in Returns :
         LET r == IF current(Self) # 0
                  THEN State_update(state_stack[current(Self)], ret)
                  ELSE TransNone
             req == Captured(Self, r)
         IN /\ req = ret
            /\ Commit(update(Self, req), "update", req)

CallPush ==
    /\ ~panicked
    /\ \E s \in NewStates : Commit(push(Self, s), "push", TransPush(s))

CallPop ==
    /\ ~panicked
    /\ Commit(pop(Self), "pop", TransPop)

CallSwitch ==
    /\ ~panicked
    /\ \E s \in NewStates : Commit(switch(Self, s), "switch", TransSwitch(s))

Next ==
    \/ CallStart
    \/ CallStop
    \/ CallHandleEvents
    \/ CallFixedUpdate
    \/ CallUpdate
    \/ CallPush
    \/ CallPop
    \/ CallSwitch

Spec == Init /\ [][Next]_vars

TypeOK ==
    /\ running \in BOOLEAN
    /\ panicked \in BOOLEAN
    /\ everRan \in BOOLEAN
    /\ nextId \in 2..(MaxStates + 1)
    /\ \A i \in 1..Len(state_stack) : state_stack[i].id \in 1..MaxStates

------------------------------------------------------------------------------
\* Callback records and the parts of the last call's trace.
Ev(cb, id, r, d) == [cb |-> cb, st |-> id, run |-> r, depth |-> d]

IsLifecycle(e) == e.cb \in Lifecycle

\* The lifecycle callbacks of the last call, without the tick callback itself.
LifeTrace == SelectSeq(trace, IsLifecycle)

Ticks == {"update", "fixed_update"}

PrevLen == Len(prev.state_stack)

PrevTop == prev.state_stack[PrevLen]

Front(s) == SubSeq(s, 1, Len(s) - 1)

\* The last call applied request t (directly or as a tick's request) while running.
Applied(t) == lastOp.req = t /\ lastOp.op # "new" /\ prev.running

\* Number of callbacks cb the last call made on the state with identity id.
RECURSIVE CountFrom(_, _, _)
CountFrom(cb, id, i) ==
    IF i > Len(trace) THEN 0
    ELSE (IF trace[i].cb = cb /\ trace[i].st = id THEN 1 ELSE 0) + CountFrom(cb, id, i + 1)

\* C1: stop() on a running machine calls on_stop on every stacked state once,
\* top of the stack first and the initial state last, all while running is
\* still true, and leaves running false.
C1_StopTopToBottom ==
    (lastOp.op = "stop" /\ prev.running) =>
        /\ running = FALSE
        /\ Len(trace) = PrevLen
        /\ \A i \in 1..Len(trace) :
             trace[i] = Ev("on_stop", prev.state_stack[PrevLen - i + 1].id, TRUE, PrevLen)

\* C2 as stated: whenever running is true the stack is non-empty.
C2_RunningImpliesNonEmpty ==
    running => state_stack # <<>>

\* C2 amended: the stack is empty only because a Pop request, applied to a
\* running machine with exactly one state, emptied it (or it was empty
\* already); no other call empties the stack, stop() included.
C2_EmptyOnlyByPop ==
    state_stack = <<>> =>
        \/ prev.state_stack = <<>>
        \/ Applied("Pop") /\ PrevLen = 1

C2_Witness ==
    /\ running
    /\ state_stack = <<>>
    /\ Applied("Pop")
    /\ PrevLen = 1

\* C3: Push(s) on a running machine with active state A calls on_pause on A
\* and then on_start on s, with s already on the stack for the second call,
\* and nothing else; afterwards the stack is the old one with s on top.
C3_PushOrder ==
    (Applied("Push") /\ PrevLen >= 1) =>
        /\ LifeTrace = << Ev("on_pause", PrevTop.id, TRUE, PrevLen),
                          Ev("on_start", lastOp.s.id, TRUE, PrevLen + 1) >>
        /\ state_stack = Append(prev.state_stack, lastOp.s)
        /\ running

C3_Witness ==
    /\ Applied("Push")
    /\ PrevLen >= 2
    /\ lastOp.op \in Ticks
    /\ Len(LifeTrace) = 2

\* C4: Pop on a running machine with at least two states calls on_stop on
\* the outgoing top while it is still stacked, removes it, then calls
\* on_resume on the new top, and nothing else.
C4_PopOrder ==
    (Applied("Pop") /\ PrevLen >= 2) =>
        /\ LifeTrace = << Ev("on_stop", PrevTop.id, TRUE, PrevLen),
                          Ev("on_resume", prev.state_stack[PrevLen - 1].id, TRUE, PrevLen - 1) >>
        /\ state_stack = Front(prev.state_stack)
        /\ running

C4_Witness ==
    /\ Applied("Pop")
    /\ PrevLen >= 3
    /\ Len(LifeTrace) = 2
    /\ Len(state_stack) = PrevLen - 1

\* C5: Switch(s) on a running machine with active state A calls on_stop on A
\* and then on_start on s and nothing else (no on_pause, no on_resume below);
\* the stack is the old one with its top replaced by s.
C5_SwitchOrder ==
    (Applied("Switch") /\ PrevLen >= 1) =>
        /\ LifeTrace = << Ev("on_stop", PrevTop.id, TRUE, PrevLen),
                          Ev("on_start", lastOp.s.id, TRUE, PrevLen) >>
        /\ state_stack = Append(Front(prev.state_stack), lastOp.s)
        /\ running

C5_Witness ==
    /\ Applied("Switch")
    /\ PrevLen >= 2
    /\ Len(LifeTrace) = 2
    /\ state_stack[PrevLen] = lastOp.s

\* C6 as stated: Push adds one state, Pop removes one when there is one,
\* and Switch never changes the size.
C6_SizeAsStated ==
    /\ Applied("Push") => Len(state_stack) = PrevLen + 1
    /\ (Applied("Pop") /\ PrevLen >= 1) => Len(state_stack) = PrevLen - 1
    /\ Applied("Switch") => Len(state_stack) = PrevLen

\* C6 amended: Push adds one state, Pop removes one when there is one, and
\* Switch keeps the size when there is a state to replace; on an empty stack
\* Switch adds the new state, giving size 1.
C6_Size ==
    /\ Applied("Push") => Len(state_stack) = PrevLen + 1
    /\ (Applied("Pop") /\ PrevLen >= 1) => Len(state_stack) = PrevLen - 1
    /\ (Applied("Switch") /\ PrevLen >= 1) => Len(state_stack) = PrevLen
    /\ (Applied("Switch") /\ PrevLen = 0) => Len(state_stack) = 1

C6_Witness ==
    /\ Applied("Switch")
    /\ PrevLen = 0
    /\ Len(state_stack) = 1

\* C7: a Quit returned by update or fixed_update, at any depth, leaves the
\* machine not running, having called on_stop exactly once on every state
\* that was stacked, and no other lifecycle callback.
C7_Quit ==
    (lastOp.op \in Ticks /\ Applied("Quit")) =>
        /\ running = FALSE
        /\ Len(LifeTrace) = PrevLen
        /\ \A i \in 1..PrevLen : CountFrom("on_stop", prev.state_stack[i].id, 1) = 1

C7_Witness ==
    /\ lastOp.op \in Ticks
    /\ Applied("Quit")
    /\ PrevLen >= 3
    /\ ~running

\* C8: the first start() of a fresh machine calls on_start once on the
\* initial state and sets running; start() while running calls nothing and
\* changes nothing.
C8_StartIdempotent ==
    lastOp.op = "start" =>
        /\ ~prev.everRan =>
             /\ trace = << Ev("on_start", 1, FALSE, 1) >>
             /\ running
             /\ state_stack = prev.state_stack
             /\ Len(state_stack) = 1 /\ state_stack[1].id = 1
        /\ prev.running =>
             /\ trace = <<>>
             /\ running
             /\ state_stack = prev.state_stack
             /\ ~panicked

C8_Witness ==
    /\ lastOp.op = "start"
    /\ prev.running
    /\ state_stack = prev.state_stack
    /\ Len(state_stack) = 1 /\ state_stack[1].id = 1
    /\ trace = <<>>

\* C9: while the machine is not running, update, fixed_update,
\* handle_events, push, pop and switch call nothing and leave the stack
\* and the running flag as they were.
C9_InertWhenNotRunning ==
    (lastOp.op \in {"update", "fixed_update", "handle_events", "push", "pop", "switch"}
        /\ ~prev.running) =>
        /\ trace = <<>>
        /\ state_stack = prev.state_stack
        /\ running = FALSE
        /\ ~panicked

C9_Witness ==
    /\ lastOp.op = "push"
    /\ ~prev.running
    /\ prev.everRan
    /\ PrevLen >= 2
    /\ state_stack = prev.state_stack

\* C10: stop() on a machine that is not running calls nothing and leaves
\* the stack and the running flag as they were.
C10_StopWhenStopped ==
    (lastOp.op = "stop" /\ ~prev.running) =>
        /\ trace = <<>>
        /\ state_stack = prev.state_stack
        /\ running = FALSE

C10_Witness ==
    /\ lastOp.op = "stop"
    /\ ~prev.running
    /\ prev.everRan
    /\ PrevLen >= 2
    /\ trace = <<>>

TickCallbacks == {"update", "fixed_update", "handle_events"}

\* C11: a tick callback (update, fixed_update, handle_events) is only ever
\* made on the state that is on top of the stack when the controller call
\* begins; no state below the top receives one.
C11_TicksOnlyOnTop ==
    \A i \in 1..Len(trace) :
        trace[i].cb \in TickCallbacks =>
            /\ i = 1
            /\ PrevLen >= 1
            /\ trace[i].st = PrevTop.id
            /\ trace[i].depth = PrevLen
            /\ trace[i].cb = lastOp.op

C11_Witness ==
    /\ lastOp.op = "handle_events"
    /\ prev.running
    /\ PrevLen >= 3
    /\ trace = << Ev("handle_events", PrevTop.id, TRUE, PrevLen) >>

\* C12: no controller call ever aborts, whatever the sequence of calls,
\* start() after a Pop emptied the stack and stop() included.
C12_NeverFails ==
    ~panicked

\* C13: handle_events on a running machine calls handle_events on the
\* active state only, makes no lifecycle callback, and leaves the stack and
\* the running flag as they were.
C13_HandleEventsNoTransition ==
    (lastOp.op = "handle_events" /\ prev.running) =>
        /\ LifeTrace = <<>>
        /\ Len(trace) <= 1
        /\ PrevLen >= 1 => trace = << Ev("handle_events", PrevTop.id, TRUE, PrevLen) >>
        /\ state_stack = prev.state_stack
        /\ running

C13_Witness ==
    /\ lastOp.op = "handle_events"
    /\ prev.running
    /\ PrevLen = 2
    /\ Len(trace) = 1
    /\ state_stack = prev.state_stack

\* C14: Pop on a running machine with exactly one state calls on_stop on
\* it, leaves the stack empty, calls no on_resume, and leaves running true.
C14_PopLastState ==
    (Applied("Pop") /\ PrevLen = 1) =>
        /\ LifeTrace = << Ev("on_stop", PrevTop.id, TRUE, 1) >>
        /\ state_stack = <<>>
        /\ running
        /\ ~panicked

C14_Witness ==
    /\ Applied("Pop")
    /\ PrevLen = 1
    /\ lastOp.op = "update"
    /\ state_stack = <<>>
    /\ running

IsTick(e) == e.cb \in TickCallbacks

\* C15: an update or fixed_update call on a running machine with an active
\* state calls that method once, on the active state, and applies the one
\* request it returned; a state installed by Push or Switch is not ticked
\* within the same call.
C15_OneRequestPerTick ==
    (lastOp.op \in Ticks /\ prev.running /\ PrevLen >= 1) =>
        /\ trace # <<>>
        /\ trace[1] = Ev(lastOp.op, PrevTop.id, TRUE, PrevLen)
        /\ Len(SelectSeq(trace, IsTick)) = 1
        /\ \A i \in 1..Len(trace) : IsTick(trace[i]) => trace[i].st # lastOp.s.id
        /\ lastOp.req = "None" =>
             state_stack = prev.state_stack /\ running /\ LifeTrace = <<>>
        /\ lastOp.req = "Pop" =>
             state_stack = Front(prev.state_stack) /\ running /\ Len(LifeTrace) <= 2
        /\ lastOp.req = "Push" =>
             state_stack = Append(prev.state_stack, lastOp.s) /\ running /\ Len(LifeTrace) = 2
        /\ lastOp.req = "Switch" =>
             state_stack = Append(Front(prev.state_stack), lastOp.s) /\ running /\ Len(LifeTrace) = 2
        /\ lastOp.req = "Quit" =>
             state_stack = prev.state_stack /\ ~running /\ Len(LifeTrace) = PrevLen

C15_Witness ==
    /\ lastOp.op = "update"
    /\ prev.running
    /\ PrevLen >= 1
    /\ lastOp.req = "Push"
    /\ lastOp.s.kind = "default"
    /\ Len(SelectSeq(trace, IsTick)) = 1
    /\ state_stack = Append(prev.state_stack, lastOp.s)

\* C17: stop(), called directly or through Quit, removes nothing: the stack
\* afterwards is the stack before, in content and order, and running is false.
C17_StopKeepsStack ==
    (lastOp.op = "stop" \/ Applied("Quit")) =>
        /\ state_stack = prev.state_stack
        /\ running = FALSE

C17_Witness ==
    /\ lastOp.op = "stop"
    /\ prev.running
    /\ PrevLen >= 2
    /\ Len(trace) = PrevLen
    /\ state_stack = prev.state_stack
    /\ ~running

\* C20: on a running machine with an empty stack, start, update,
\* fixed_update, handle_events and pop call nothing and change nothing;
\* stop() only clears running; push and switch make the new state the sole
\* entry and call on_start on it and nothing else.
C20_RunningEmpty ==
    (prev.running /\ PrevLen = 0 /\ lastOp.op # "new") =>
        /\ ~panicked
        /\ lastOp.op \in {"start", "update", "fixed_update", "handle_events", "pop"} =>
             trace = <<>> /\ state_stack = <<>> /\ running
        /\ lastOp.op \in Ticks => lastOp.req = "None"
        /\ lastOp.op = "stop" =>
             trace = <<>> /\ state_stack = <<>> /\ ~running
        /\ lastOp.op \in {"push", "switch"} =>
             /\ trace = << Ev("on_start", lastOp.s.id, TRUE, 1) >>
             /\ state_stack = << lastOp.s >>
             /\ running

C20_Witness ==
    /\ prev.running
    /\ PrevLen = 0
    /\ lastOp.op = "pop"
    /\ trace = <<>>
    /\ state_stack = <<>>
    /\ running

AllDefault(stk) == \A i \in 1..Len(stk) : stk[i].kind = "default"

\* The identities of the top k states of stk, top first.
TopIds(stk, k) == [i \in 1..k |-> stk[Len(stk) - i + 1].id]

\* C16: a state with the default update asks for Pop at every update call:
\* on a running machine whose n stacked states all keep the default, the
\* k-th consecutive update call has removed the top k states, each stopped
\* once, top first (the exposed state being resumed), and the n-th leaves
\* the stack empty; fixed_update on such a state asks for nothing and
\* leaves the stack as it was.
C16_DefaultUpdatePops ==
    /\ (streak.base # <<>> /\ AllDefault(streak.base)) =>
         /\ state_stack = SubSeq(streak.base, 1, Len(streak.base) - streak.n)
         /\ streak.stops = TopIds(streak.base, streak.n)
         /\ running
         /\ streak.n = Len(streak.base) => state_stack = <<>>
    /\ (lastOp.op = "update" /\ prev.running /\ PrevLen >= 1 /\ PrevTop.kind = "default") =>
         /\ lastOp.req = "Pop"
         /\ LifeTrace = << Ev("on_stop", PrevTop.id, TRUE, PrevLen) >> \o
                (IF PrevLen >= 2
                 THEN << Ev("on_resume", prev.state_stack[PrevLen - 1].id, TRUE, PrevLen - 1) >>
                 ELSE <<>>)
    /\ (lastOp.op = "fixed_update" /\ prev.running /\ PrevLen >= 1 /\ PrevTop.kind = "default") =>
         /\ lastOp.req = "None"
         /\ LifeTrace = <<>>
         /\ state_stack = prev.state_stack
         /\ running

C16_Witness ==
    /\ Len(streak.base) >= 3
    /\ AllDefault(streak.base)
    /\ streak.n = Len(streak.base)
    /\ Len(streak.stops) = Len(streak.base)
    /\ state_stack = <<>>

\* C18: whatever the sequence of calls, start() after stop() included, no
\* state receives on_stop twice, and none receives any callback after its
\* on_stop.
C18_NothingAfterStop ==
    \A i \in 1..MaxStates : ~life[i].again

\* C19: as long as start() has not been called on a machine that stop() shut
\* down, every state's lifecycle callbacks are well nested (on_start, then
\* on_pause and on_resume in alternation, then at most one on_stop); and
\* while running, the active state was last started or resumed and every
\* state below it was last paused.
C19_WellNested ==
    ~restarted =>
        /\ \A i \in 1..MaxStates : life[i].nested
        /\ running =>
             \A i \in 1..Len(state_stack) :
                 IF i = Len(state_stack)
                 THEN life[state_stack[i].id].last \in {"on_start", "on_resume"}
                 ELSE life[state_stack[i].id].last = "on_pause"

C19_Witness ==
    /\ ~restarted
    /\ running
    /\ Len(state_stack) >= 2
    /\ life[state_stack[Len(state_stack)].id].last = "on_resume"
    /\ \E i \in 1..MaxStates : life[i].stopped /\ life[i].nested
====
